---- MODULE Spec2Model ----
(***************************************************************************)
(* Session Ledger Engine of AnkleBreaker (src/main.py).                    *)
(*                                                                         *)
(* Names are modelled as token sequences: the folder "Session-A-d-v2-flag" *)
(* is <<"A", "v2", "flag">> and the file "x-flag.csv" is <<"x", "flag">>,  *)
(* so that the string operations of the code (append "-flag", replace      *)
(* "-flag" by "", strip a trailing "-flag", test for "-flag") are the      *)
(* corresponding operations on the tokens.  A path is a record of the      *)
(* session folder and the file name.  A dataframe is the sequence of its   *)
(* rows.  Prices are in cents.                                             *)
(***************************************************************************)
EXTENDS Integers, Sequences, FiniteSets, TLC

\* ------------------------------------------------------------------ bounds
MaxSessions == 2
MaxFiles == 2
MaxRows == 1

\* ------------------------------------------------------- program constants
STATUS_LIST == <<"regular", "manual", "comped", "refund", "waitlist", "other">>
COMPED_NAMES == {"vincent robertson", "ryan marvin", "zorano tubo", "kaleta tubo",
                 "tiniira tubo", "marena tubo", "cole hessler", "meyer knapp",
                 "tina knapp", "anderson leclair", "the ghost"}
RenameAttempts == 3
DefaultFee == 1000

\* ------------------------------------------------------------ input sets
Statuses == {STATUS_LIST[i] : i \in DOMAIN STATUS_LIST}
EditStatuses == {"regular", "other"}
WAITLIST_PHRASE == "no capacity, and room on the waiting list : register"
REGULAR_PHRASE == "not over capacity: register"
\* notes are modelled by the set of classifier phrases they contain
SourceNames == {<<"x">>, <<"x", "flag">>, <<"y">>}
Prices == {1500}
BaseName == <<"A">>
DownloadsDir == <<"Downloads">>
NoSession == <<>>

\* ------------------------------------------------------------ map helpers
EmptyMap == [k \in {} |-> 0]
Put(f, k, v) == [x \in (DOMAIN f) \cup {k} |-> IF x = k THEN v ELSE f[x]]
Del(f, k) == [x \in (DOMAIN f) \ {k} |-> f[x]]
Range(s) == {s[i] : i \in DOMAIN s}
SeqMap(Op(_), s) == [i \in 1..Len(s) |-> Op(s[i])]

\* ------------------------------------------------------------ name helpers
HasFlagToken(n) == \E i \in DOMAIN n : n[i] = "flag"
EndsWithFlagOrNot(n) == Len(n) > 0
EndsWithFlag(n) == Len(n) > 0 /\ n[Len(n)] = "flag"
RemoveFlagTokens(n) == SelectSeq(n, LAMBDA t : t # "flag")
StripFlagSuffix(n) == IF EndsWithFlag(n) THEN SubSeq(n, 1, Len(n) - 1) ELSE n
VTok(k) == <<"v2", "v3", "v4", "v5", "v6">>[k - 1]
MkPath(d, n) == [dir |-> d, name |-> n]
basename(p) == p.name

\* str.__lt__ on the file names: '-' sorts before '.'
NameOrder == << <<"x", "flag">>, <<"x">>, <<"y", "flag">>, <<"y">> >>
NameRank(n) == CHOOSE i \in DOMAIN NameOrder : NameOrder[i] = n
RECURSIVE SortNames(_)
SortNames(S) ==
    IF S = {} THEN <<>>
    ELSE LET m == CHOOSE n \in S : \A o \in S : NameRank(n) <= NameRank(o)
         IN <<m>> \o SortNames(S \ {m})

get_csv_paths_from_dir(dsk, d) ==
    IF d \notin DOMAIN dsk THEN <<>>
    ELSE SeqMap(LAMBDA n : MkPath(d, n), SortNames(DOMAIN dsk[d].csv))

\* ------------------------------------------------------------- classifier
\* A note text is the set of the fragments it contains, as they are written; a
\* name is a string.  str.strip() and str.lower() are given by their values on
\* the texts the inputs are made of (a text that is not listed has no blank at
\* its ends, respectively no capital letter).
StrStrip(s) == IF s = " Ryan Marvin " THEN "Ryan Marvin" ELSE s
StrLower(s) ==
    IF s \in {"Ryan Marvin", "RYAN MARVIN"} THEN "ryan marvin"
    ELSE IF s = " Ryan Marvin " THEN " ryan marvin "
    ELSE IF s = "Jane Doe" THEN "jane doe"
    ELSE IF s = "Comped" THEN "comped"
    ELSE IF s = "Refund" THEN "refund"
    ELSE IF s = "Manually confirmed by" THEN "manually confirmed by"
    ELSE IF s = "Not over capacity: Register" THEN "not over capacity: register"
    ELSE s
determine_default_status_cased(notes, name) ==
    IF StrStrip(name) \in COMPED_NAMES THEN "comped"
    ELSE IF "comped" \in notes THEN "comped"
    ELSE IF WAITLIST_PHRASE \in notes THEN "waitlist"
    ELSE IF "refund" \in notes THEN "refund"
    ELSE IF "manually confirmed by" \in notes THEN "manual"
    ELSE IF REGULAR_PHRASE \in notes THEN "regular"
    ELSE "other"
determine_default_status(notes, name) ==
    LET name_lower == StrLower(StrStrip(name))
        notes_lower == {StrLower(t) : t \in notes}
    IN IF name_lower \in COMPED_NAMES THEN "comped"
       ELSE IF "comped" \in notes_lower THEN "comped"
       ELSE IF WAITLIST_PHRASE \in notes_lower THEN "waitlist"
       ELSE IF "refund" \in notes_lower THEN "refund"
       ELSE IF "manually confirmed by" \in notes_lower THEN "manual"
       ELSE IF REGULAR_PHRASE \in notes_lower THEN "regular"
       ELSE "other"

is_file_flagged_default(df) == \E i \in DOMAIN df : df[i].default_status = "other"
is_file_flagged(df) == \E i \in DOMAIN df : df[i].current_status = "other"

ValueCounts(df) ==
    [s \in {df[i].current_status : i \in DOMAIN df} |->
        Cardinality({i \in DOMAIN df : df[i].current_status = s})]

\* ------------------------------------------------------------------ state
VARIABLES
    disk,            \* sessions root: folder name -> [csv: file name -> rows, meta]
    current_session, \* state["current_session"]
    csv_paths,       \* state["csv_paths"]
    dataframes,      \* state["dataframes"] when it is a dict (path -> rows)
    df_list,         \* state["dataframes"] when it is the list built by load_paths
    status_counts,   \* state["status_counts"]
    fee_schedule,    \* state["fee_schedule"]
    session_csvs,    \* assign screen: list of file names shown
    scr_dataframes,  \* assign screen: list of the dataframes shown (as keys of dataframes)
    view,            \* assign screen: index selected in the file dropdown, 0 = View All
    next_enabled,    \* assign screen: Next button
    screen,          \* index of the stack page shown
    fee_session_dir, \* fee screen: session_dir captured when it was built
    pc,              \* "idle", or "flag" between a status mutation and its flag pass
    pend,            \* path handed to update_flag_state_for_file
    last,            \* what the operation just completed did and showed
    metadata,        \* update_flag_state_for_file: its local metadata dict
    payment_summary_mode, \* state["payment_summary_mode"]
    spelling         \* how the text of state["current_session"] spells the folder's
                     \* path: "os" as os.path.join builds it, "qt" as QFileDialog
                     \* returns it; "os" while there is no current session

vars == <<disk, current_session, csv_paths, dataframes, df_list, status_counts,
          fee_schedule, session_csvs, scr_dataframes, view, next_enabled, screen,
          fee_session_dir, pc, pend, last, metadata,
          payment_summary_mode, spelling>>

\* --------------------------------------------------- observation of a step
NoPath == MkPath(NoSession, <<>>)
NoRow == [path |-> NoPath, row |-> 0]
\* no payment summary was built
NoSummary == [mode |-> "none", groups |-> <<>>, grand_status_totals |-> <<>>,
              grand_financial_totals |-> [Gross |-> 0, TrackitHub |-> 0, PayPal |-> 0, Club |-> 0]]
Last(op) == [op |-> op, dialogs |-> {}, prop |-> "none", folder |-> "none",
             attempts |-> 0, owner |-> NoRow, target |-> NoRow, before |-> "none",
             dataChanged |-> FALSE, sessionsChanged |-> FALSE,
             summary |-> NoSummary, total_net |-> 0, net_to_club |-> 0,
             listed |-> {}, failed |-> {}]

NoMeta == [flagged |-> FALSE, flagged_files |-> <<>>, fees |-> EmptyMap]

Init ==
    /\ disk = EmptyMap
    /\ current_session = NoSession
    /\ csv_paths = <<>>
    /\ dataframes = EmptyMap
    /\ df_list = <<>>
    /\ status_counts = EmptyMap
    /\ fee_schedule = EmptyMap
    /\ session_csvs = <<>>
    /\ scr_dataframes = <<>>
    /\ view = 0
    /\ next_enabled = FALSE
    /\ screen = 0
    /\ fee_session_dir = NoSession
    /\ pc = "idle"
    /\ pend = NoPath
    /\ last = Last("init")
    /\ metadata = NoMeta
    /\ payment_summary_mode = "sorted"
    /\ spelling = "os"

\* --------------------------------------------------------- assign screen
update_other_display(names, dfs) ==
    \E i \in DOMAIN dfs : is_file_flagged(dfs[i])

update_status_counts(names, dfs) ==
    [n \in Range(names) |->
        LET i == CHOOSE j \in DOMAIN names :
                    names[j] = n /\ \A k \in DOMAIN names : names[k] = n => k <= j
        IN ValueCounts(dfs[i])]

\* the state left by create_assign_status_screen(stack, state)
create_assign_status_screen(dsk, cur, dfs) ==
    LET paths == get_csv_paths_from_dir(dsk, cur)
        usable == paths # <<>> /\ \A i \in DOMAIN paths : paths[i] \in DOMAIN dfs
        names == IF usable THEN SeqMap(basename, paths) ELSE <<>>
        shown == IF usable THEN paths ELSE <<>>
        frames == [i \in DOMAIN shown |-> dfs[shown[i]]]
    IN [csv_paths |-> paths,
        dataframes |-> dfs,
        session_csvs |-> names,
        scr_dataframes |-> shown,
        status_counts |-> IF shown # <<>> THEN update_status_counts(names, frames)
                          ELSE EmptyMap,
        next_enabled |-> ~update_other_display(names, frames)]

\* ----------------------------------------------------------------- import
\* The export folder the operator imports from: two raw exports and a file in
\* the processed layout that an earlier session wrote.  The processed file kept
\* the flag suffix although nothing in it is 'other', and the default_status it
\* stores for its first record is not what the classifier gives for that
\* record's notes today.
Row(n, e, notes) == [Name |-> n, Email |-> e, Notes |-> notes]
Processed(n, e, notes, d, c) ==
    [Name |-> n, Email |-> e, Notes |-> notes, default_status |-> d, current_status |-> c,
     AnkleBreaker_notes |-> ""]
ExportRows ==
    [n \in SourceNames |->
        IF n = <<"x">>
        THEN <<Row("ann", "a1", {REGULAR_PHRASE}), Row("ann", "a2", {}),
               Row("ann", "a1", {})>>
        ELSE IF n = <<"x", "flag">>
        THEN <<Processed("ann", "a1", {}, "regular", "regular"),
               Processed("ann", "a2", {REGULAR_PHRASE}, "regular", "regular"),
               Processed("ann", "a1", {}, "other", "other")>>
        ELSE <<Row("ann", "a2", {}), Row("ann", "a1", {}),
               Row("ann", "a2", {REGULAR_PHRASE})>>]
\* the header line of a source file, as load_paths tells the layouts apart
Layout(n) == IF n = <<"x", "flag">> THEN "processed_layout" ELSE "raw_layout"
SourceFile(n) ==
    [name |-> n, headers |-> Layout(n), rows |-> SubSeq(ExportRows[n], 1, MaxRows)]
\* the files of one selection come in the order of their names
Selections ==
    {SeqMap(SourceFile, SortNames(S)) :
        S \in {T \in SUBSET SourceNames : T # {} /\ Cardinality(T) <= MaxFiles}}
\* selections of one file with one record
SingleFile(n) ==
    [name |-> n, headers |-> Layout(n), rows |-> SubSeq(ExportRows[n], 1, 1)]
SingleSelections == {<<SingleFile(<<"x">>)>>, <<SingleFile(<<"y">>)>>}

\* lines 573-577 and 581-585: the columns added to a file that is not processed
IngestRow(r) ==
    LET d == determine_default_status(r.Notes, r.Name)
    IN [Name |-> r.Name, Email |-> r.Email, Notes |-> r.Notes,
        default_status |-> d, current_status |-> d, AnkleBreaker_notes |-> ""]

ReadSourceRederive(f) == SeqMap(IngestRow, f.rows)
\* lines 563-586: one pass of the loop over the selected paths
ReadSource(f) ==
    IF f.headers = "processed_layout" THEN f.rows ELSE SeqMap(IngestRow, f.rows)

\* load_paths(paths): the files selected on the welcome screen are parsed
\* (cap is the number of sessions the sessions root can hold).  The upload
\* buttons are enabled only while no session is locked, which is the case exactly
\* on the welcome screen at start-up and after a reset.
\* lines 562-589: the tables of the files that were parsed, in the order of
\* the selection; a file of `failed` raises and is only counted
RECURSIVE ParsedFiles(_, _)
ParsedFiles(sel, failed) ==
    IF sel = <<>> THEN <<>>
    ELSE (IF Head(sel).name \in failed THEN <<>> ELSE <<ReadSource(Head(sel))>>)
         \o ParsedFiles(Tail(sel), failed)

load_paths(sel, cap, failed) ==
    /\ pc = "idle"
    /\ screen = 0
    /\ Cardinality(DOMAIN disk) < cap
    /\ failed \subseteq {sel[i].name : i \in DOMAIN sel}
    /\ csv_paths' = SeqMap(LAMBDA f : MkPath(DownloadsDir, f.name), sel)
    /\ df_list' = ParsedFiles(sel, failed)
    /\ dataframes' = EmptyMap
    /\ last' = [Last("load_paths") EXCEPT !.failed = failed]
    /\ UNCHANGED <<disk, current_session, status_counts, fee_schedule, session_csvs,
                   scr_dataframes, view, next_enabled, screen, fee_session_dir, pc, pend, metadata,
                   payment_summary_mode, spelling>>

\* ------------------------------------------------------- session creation
\* a name loop that never looks at the sessions root
VersionedNameUnchecked(base, k, used) == base

\* lines 867-873: first free name among base, base-v2, base-v3, ...
RECURSIVE VersionedName(_, _, _)
VersionedName(base, k, used) ==
    LET n == IF k = 1 THEN base ELSE base \o <<VTok(k)>>
    IN IF n \in used THEN VersionedName(base, k + 1, used) ELSE n

\* lines 903-909: the suffix is appended to the name built so far
RECURSIVE FlaggedName(_, _, _)
FlaggedName(n, k, used) ==
    IF n \in used THEN FlaggedName(n \o <<VTok(k)>>, k + 1, used) ELSE n

\* lines 881-900: one pass of the loop over zip(dataframes, csv_paths)
RECURSIVE WriteFiles(_, _, _, _)
WriteFiles(dfs, paths, i, acc) ==
    IF i > Len(dfs) \/ i > Len(paths) THEN acc
    ELSE LET df == dfs[i]
             has_other == is_file_flagged(df)
             orig == basename(paths[i])
             filename == IF has_other /\ ~EndsWithFlag(orig)
                         THEN orig \o <<"flag">> ELSE orig
         IN WriteFiles(dfs, paths, i + 1,
                [csv |-> Put(acc.csv, filename, df),
                 new_names |-> Append(acc.new_names, filename),
                 flagged |-> acc.flagged \/ has_other,
                 flagged_files |-> IF EndsWithFlag(filename)
                                   THEN Append(acc.flagged_files, filename)
                                   ELSE acc.flagged_files])

create_session(cap) ==
    /\ pc = "idle"
    /\ screen = 0
    /\ df_list # <<>>
    /\ Cardinality(DOMAIN disk) < cap
    /\ LET first_name == VersionedName(BaseName, 1, DOMAIN disk)
           w == WriteFiles(df_list, csv_paths, 1,
                           [csv |-> EmptyMap, new_names |-> <<>>, flagged |-> FALSE,
                            flagged_files |-> <<>>])
           session_name ==
               IF w.flagged /\ ~HasFlagToken(first_name)
               THEN FlaggedName(first_name \o <<"flag">>, 2, DOMAIN disk \cup {first_name})
               ELSE first_name
           new_metadata == [flagged |-> w.flagged, flagged_files |-> w.flagged_files,
                        fees |-> EmptyMap]
           dsk == Put(disk, session_name, [csv |-> w.csv, meta |-> new_metadata])
           new_paths == SeqMap(LAMBDA n : MkPath(session_name, n), w.new_names)
           rebuilt == [p \in Range(new_paths) |-> dsk[session_name].csv[p.name]]
           a == create_assign_status_screen(dsk, session_name, rebuilt)
       IN /\ disk' = dsk
          /\ current_session' = session_name
          /\ csv_paths' = a.csv_paths
          /\ dataframes' = a.dataframes
          /\ df_list' = <<>>
          /\ status_counts' = a.status_counts
          /\ session_csvs' = a.session_csvs
          /\ scr_dataframes' = a.scr_dataframes
          /\ next_enabled' = a.next_enabled
          /\ view' = 0
          /\ screen' = 2
          /\ last' = [Last("create_session") EXCEPT !.dataChanged = TRUE,
                                                  !.sessionsChanged = TRUE]
    /\ spelling' = "os"
    /\ UNCHANGED <<fee_schedule, fee_session_dir, pc, pend, metadata,
                   payment_summary_mode>>

\* ------------------------------------------------------------ fee screen
\* the state left by create_fee_schedule_screen(stack, state)
create_fee_schedule_screen(dsk, cur, paths) ==
    LET saved_prices == IF cur # NoSession /\ cur \in DOMAIN dsk
                        THEN dsk[cur].meta.fees ELSE EmptyMap
    IN [fee_schedule |-> EmptyMap,
        fee_session_dir |-> cur,
        fee_inputs |-> [n \in {basename(paths[i]) : i \in DOMAIN paths} |->
                           IF n \in DOMAIN saved_prices THEN saved_prices[n]
                           ELSE DefaultFee]]

\* ------------------------------------------------------- status mutation
Frames(dfs) == [i \in DOMAIN scr_dataframes |-> dfs[scr_dataframes[i]]]
SetCurrentAndDefault(df, r, s) ==
    [df EXCEPT ![r].current_status = s, ![r].default_status = s]
\* an assignment that also empties the notes of the record
SetCurrentClearsNotes(df, r, s) == [df EXCEPT ![r].current_status = s, ![r].Notes = {}]
\* df.at[row_idx, "current_status"] = status
SetCurrent(df, r, s) == [df EXCEPT ![r].current_status = s]
Exists(dsk, p) == p.dir \in DOMAIN dsk /\ p.name \in DOMAIN dsk[p.dir].csv
to_csv(dsk, p, df) == [dsk EXCEPT ![p.dir].csv = Put(@, p.name, df)]

\* update_person_buttons(df_index), triggered by the file dropdown
select_view(i) ==
    /\ pc = "idle"
    /\ screen = 2
    /\ i \in 0..Len(session_csvs)
    /\ view' = i
    /\ status_counts' = IF i = 0 \/ i <= Len(scr_dataframes)
                        THEN update_status_counts(session_csvs, Frames(dataframes))
                        ELSE status_counts
    /\ last' = Last("select_view")
    /\ UNCHANGED <<disk, current_session, csv_paths, dataframes, df_list, fee_schedule,
                   session_csvs, scr_dataframes, next_enabled, screen, fee_session_dir, pc, pend, metadata,
                   payment_summary_mode, spelling>>

\* the handler of a status button in the single-file view (lines 1539-1547)
set_status_single(r, s) ==
    /\ pc = "idle"
    /\ screen = 2
    /\ view >= 1 /\ view <= Len(scr_dataframes) /\ view <= Len(csv_paths)
    /\ LET path == csv_paths[view]
       IN /\ path \in DOMAIN dataframes
          /\ r \in DOMAIN dataframes[path]
          /\ path.dir \in DOMAIN disk
          /\ LET df == SetCurrent(dataframes[path], r, s)
                 dfs == [dataframes EXCEPT ![path] = df]
             IN /\ dataframes' = dfs
                /\ disk' = to_csv(disk, path, df)
                /\ next_enabled' = ~update_other_display(session_csvs, Frames(dfs))
                /\ status_counts' = update_status_counts(session_csvs, Frames(dfs))
          /\ pend' = path
          /\ last' = [Last("setStatus") EXCEPT !.owner = [path |-> path, row |-> r],
                                              !.target = [path |-> path, row |-> r],
                                              !.before = dataframes[path][r].current_status]
    /\ pc' = "flag"
    /\ UNCHANGED <<current_session, csv_paths, df_list, fee_schedule, session_csvs,
                   scr_dataframes, view, screen, fee_session_dir, metadata,
                   payment_summary_mode, spelling>>

\* df[(df["Name"] == person["Name"]) & (df["Email"] == person["Email"])]
Match(df, person) ==
    {i \in DOMAIN df : df[i].Name = person.Name /\ df[i].Email = person.Email}
Min(S) == CHOOSE x \in S : \A y \in S : x <= y

\* lines 1499-1509: the first path of csv_paths whose table has a match
ViewAllTarget(paths, dfs, person) ==
    LET hits == {i \in DOMAIN paths : Match(dfs[paths[i]], person) # {}}
    IN [path |-> paths[Min(hits)], row |-> Min(Match(dfs[paths[Min(hits)]], person))]

\* the handler of a status button of a row of the View All view (lines 1497-1510);
\* the row is the r-th row shown under the file csv_paths[o]
set_status_all(o, r, s) ==
    /\ pc = "idle"
    /\ screen = 2
    /\ view = 0
    /\ scr_dataframes # <<>>
    /\ o \in DOMAIN csv_paths
    /\ csv_paths[o] \in DOMAIN dataframes
    /\ r \in DOMAIN dataframes[csv_paths[o]]
    /\ LET person == dataframes[csv_paths[o]][r]
           t == ViewAllTarget(csv_paths, dataframes, person)
           dfs == [dataframes EXCEPT ![t.path] = SetCurrent(@, t.row, s)]
       IN /\ dataframes' = dfs
          /\ next_enabled' = ~update_other_display(session_csvs, Frames(dfs))
          /\ status_counts' = update_status_counts(session_csvs, Frames(dfs))
          /\ pend' = t.path
          /\ last' = [Last("setStatus") EXCEPT !.owner = [path |-> csv_paths[o], row |-> r],
                                              !.target = t,
                                              !.before = dataframes[t.path][t.row].current_status]
    /\ pc' = "flag"
    /\ UNCHANGED <<disk, current_session, csv_paths, df_list, fee_schedule, session_csvs,
                   scr_dataframes, view, screen, fee_session_dir, metadata,
                   payment_summary_mode, spelling>>

\* -------------------------------------------------------- payment summary
\* A price is a number of cents (the fee fields take two decimals); an amount
\* of money is a number of ten-thousandths of a cent, the unit in which every
\* product below is exact.
Cents(c) == c * 10000
TierLimit == 1000
\* price * 0.05 + 0.09 if price <= 10 else price * 0.0349 + 0.49
paypal_unit_strict(price) ==
    IF price < TierLimit THEN price * 500 + Cents(9) ELSE price * 349 + Cents(49)
paypal_unit(price) ==
    IF price <= TierLimit THEN price * 500 + Cents(9) ELSE price * 349 + Cents(49)
\* the sum of the unit fee over range(regular)
RECURSIVE paypal_sum(_, _)
paypal_sum(price, regular) ==
    IF regular = 0 THEN 0 ELSE paypal_unit(price) + paypal_sum(price, regular - 1)
\* dict.get(key, 0)
Get(d, k) == IF k \in DOMAIN d THEN d[k] ELSE 0
statuses_to_show == SubSeq(STATUS_LIST, 1, Len(STATUS_LIST) - 1)
\* lines 2044-2057: the row of one file
financial_row(fname, counts, fee_sched) ==
    LET price == Get(fee_sched, fname)
        regular == Get(counts, "regular")
        manual == Get(counts, "manual")
        gross == (regular + manual) * Cents(price)
        trackithub == gross \div 10
        paypal == paypal_sum(price, regular)
    IN [fname |-> fname, price |-> price, regular |-> regular, manual |-> manual,
        counts |-> [k \in DOMAIN statuses_to_show |-> Get(counts, statuses_to_show[k])],
        Gross |-> gross, TrackitHub |-> trackithub, PayPal |-> paypal,
        Club |-> gross - trackithub - paypal]
RECURSIVE SortNums(_)
SortNums(S) == IF S = {} THEN <<>> ELSE <<Min(S)>> \o SortNums(S \ {Min(S)})
\* lines 1973-1978: grouped[price] keeps one file only
grouped_last_only(mode, names, fee_sched) ==
    IF mode = "unsorted" THEN <<[key |-> "All Files", files |-> SortNames(names)]>>
    ELSE LET keys == SortNums({Get(fee_sched, n) : n \in names})
         IN [k \in DOMAIN keys |->
                [key |-> keys[k],
                 files |-> <<CHOOSE n \in names : Get(fee_sched, n) = keys[k]>>]]
\* lines 1969-1982: the groups in the order they are shown, each with its files
\* in sorted order
grouped(mode, names, fee_sched) ==
    IF mode = "unsorted" THEN <<[key |-> "All Files", files |-> SortNames(names)]>>
    ELSE LET keys == SortNums({Get(fee_sched, n) : n \in names})
         IN [k \in DOMAIN keys |->
                [key |-> keys[k],
                 files |-> SortNames({n \in names : Get(fee_sched, n) = keys[k]})]]
RECURSIVE SumSeq(_)
SumSeq(q) == IF q = <<>> THEN 0 ELSE Head(q) + SumSeq(Tail(q))
Flatten(groups) ==
    IF groups = <<>> THEN <<>>
    ELSE [k \in 1..SumSeq([g \in DOMAIN groups |-> Len(groups[g].rows)]) |->
            LET g == Min({h \in DOMAIN groups :
                            k <= SumSeq([j \in 1..h |-> Len(groups[j].rows)])})
                before == SumSeq([j \in 1..(g - 1) |-> Len(groups[j].rows)])
            IN groups[g].rows[k - before]]
\* build_payment_summary(mode), lines 1942-2110
build_payment_summary(mode, counts, fee_sched) ==
    LET gs == grouped(mode, DOMAIN counts, fee_sched)
        groups == [g \in DOMAIN gs |->
                     [key |-> gs[g].key,
                      rows |-> [r \in DOMAIN gs[g].files |->
                                  financial_row(gs[g].files[r], counts[gs[g].files[r]],
                                                fee_sched)]]]
        rows == Flatten(groups)
    IN [mode |-> mode,
        groups |-> groups,
        grand_status_totals |->
            [k \in DOMAIN statuses_to_show |->
                SumSeq([r \in DOMAIN rows |-> rows[r].counts[k]])],
        grand_financial_totals |->
            [Gross |-> SumSeq([r \in DOMAIN rows |-> rows[r].Gross]),
             TrackitHub |-> SumSeq([r \in DOMAIN rows |-> rows[r].TrackitHub]),
             PayPal |-> SumSeq([r \in DOMAIN rows |-> rows[r].PayPal]),
             Club |-> SumSeq([r \in DOMAIN rows |-> rows[r].Club])]]

\* ------------------------------------------------------- flag propagation
\* outcomes of the file system calls, chosen by the environment: os.access,
\* os.remove and the number of os.rename calls that raise; a call that follows a
\* failed one is never made, so its outcome is left at its default
FileIO ==
    {io \in [access : BOOLEAN, removeOk : BOOLEAN, nfail : 0..RenameAttempts] :
        (~io.access \/ ~io.removeOk) => (io.nfail = 0 /\ (io.access \/ io.removeOk))}
FolderIO ==
    {io \in [access : BOOLEAN, renameOk : BOOLEAN] : ~io.access => io.renameOk}

RemoveFirst(seq, x) ==
    IF \E i \in DOMAIN seq : seq[i] = x
    THEN LET k == Min({i \in DOMAIN seq : seq[i] = x})
         IN SubSeq(seq, 1, k - 1) \o SubSeq(seq, k + 1, Len(seq))
    ELSE seq
MoveKey(f, old, new) == IF old \in DOMAIN f THEN Put(Del(f, old), new, f[old]) ELSE f
IndexOf(seq, x) == Min({i \in DOMAIN seq : seq[i] = x})

\* lines 1216-1233: the indexes after propagate_file_rename(old_path, new_path)
propagate_file_rename(old_path, new_path) ==
    [csv_paths |-> [i \in DOMAIN csv_paths |->
                       IF csv_paths[i] = old_path THEN new_path ELSE csv_paths[i]],
     dataframes |-> MoveKey(dataframes, old_path, new_path),
     status_counts |-> MoveKey(status_counts, basename(old_path), basename(new_path)),
     fee_schedule |-> MoveKey(fee_schedule, basename(old_path), basename(new_path))]

\* lines 1329-1335: the metadata dict after step 2
UpdateMetadata(md, old_basename, new_basename) ==
    LET files == RemoveFirst(md.flagged_files, old_basename)
    IN [flagged |-> files # <<>>,
        flagged_files |-> files,
        fees |-> MoveKey(md.fees, old_basename, new_basename)]

FlagReturn(dsk, prop, dialogs, attempts) ==
    /\ disk' = dsk
    /\ pc' = "idle"
    /\ last' = [Last("flagPass") EXCEPT !.prop = prop, !.dialogs = dialogs,
                                        !.attempts = attempts, !.dataChanged = TRUE]
    /\ pend' = NoPath
    /\ UNCHANGED <<current_session, csv_paths, dataframes, df_list, status_counts,
                   fee_schedule, session_csvs, scr_dataframes, view, next_enabled,
                   screen, fee_session_dir, metadata,
                   payment_summary_mode, spelling>>

\* update_flag_state_for_file(csv_path, state, stack), lines 1254-1344:
\* steps 0 to 3, up to the refresh of the file dropdown
update_flag_state_for_file(io) ==
    /\ pc = "flag"
    /\ LET hits == {i \in DOMAIN csv_paths : basename(csv_paths[i]) = basename(pend)}
           csv_path == IF hits # {} THEN csv_paths[Min(hits)] ELSE pend
       IN IF csv_path \notin DOMAIN dataframes
          THEN FlagReturn(disk, "noop", {}, 0)
          ELSE
          LET df == dataframes[csv_path]
              still_flagged == is_file_flagged(df)
              is_flagged_file == EndsWithFlag(basename(csv_path))
              old_basename == basename(csv_path)
              unflagged_path == MkPath(csv_path.dir, StripFlagSuffix(csv_path.name))
              new_basename == basename(unflagged_path)
              flushed == to_csv(disk, csv_path, df)
              removed == [flushed EXCEPT ![csv_path.dir].csv = Del(@, new_basename)]
              renamed == [removed EXCEPT ![csv_path.dir].csv =
                              Put(Del(@, old_basename), new_basename, @[old_basename])]
          IN IF ~is_flagged_file \/ still_flagged
             THEN FlagReturn(disk, "noop", {}, 0)
             ELSE IF ~(Exists(disk, csv_path) /\ io.access)
             THEN FlagReturn(disk, "inaccessible", {"File Locked"}, 0)
             ELSE IF Exists(flushed, unflagged_path) /\ ~io.removeOk
             THEN FlagReturn(flushed, "remove_failed", {}, 0)
             ELSE IF io.nfail >= RenameAttempts
             THEN FlagReturn(removed, "rename_failed", {"File Locked"}, RenameAttempts)
             ELSE
             LET pr == propagate_file_rename(csv_path, unflagged_path)
                 fs == create_fee_schedule_screen(renamed, current_session, pr.csv_paths)
                 names == SeqMap(basename, pr.csv_paths)
                 frames == [i \in DOMAIN pr.csv_paths |-> pr.dataframes[pr.csv_paths[i]]]
                 selected == IF view = 0 \/ view > Len(session_csvs)
                             THEN 0
                             ELSE IF session_csvs[view] \in Range(names)
                                  THEN IndexOf(names, session_csvs[view])
                                  ELSE 0
             IN /\ disk' = renamed
                /\ metadata' = UpdateMetadata(disk[csv_path.dir].meta,
                                              old_basename, new_basename)
                /\ csv_paths' = pr.csv_paths
                /\ dataframes' = pr.dataframes
                /\ fee_schedule' = fs.fee_schedule
                /\ fee_session_dir' = fs.fee_session_dir
                /\ session_csvs' = names
                /\ scr_dataframes' = pr.csv_paths
                /\ view' = selected
                /\ next_enabled' = ~update_other_display(names, frames)
                /\ status_counts' = IF selected = 0
                                    THEN update_status_counts(names, frames)
                                    ELSE pr.status_counts
                /\ pend' = unflagged_path
                /\ pc' = "folder"
                /\ last' = [last EXCEPT !.op = "flagPass", !.prop = "renamed",
                                        !.attempts = io.nfail + 1,
                                        !.dataChanged = TRUE, !.sessionsChanged = TRUE,
                                        !.summary = build_payment_summary(
                                            payment_summary_mode, status_counts',
                                            fs.fee_schedule)]
                /\ UNCHANGED <<current_session, df_list, screen, payment_summary_mode, spelling>>

FolderReturn(dsk, folder, dialogs) ==
    /\ disk' = dsk
    /\ pc' = "idle"
    /\ metadata' = NoMeta
    /\ last' = [last EXCEPT !.op = "folderPass", !.folder = folder,
                            !.dialogs = dialogs]
    /\ pend' = NoPath
    /\ UNCHANGED <<df_list, status_counts, fee_schedule, session_csvs,
                   view, next_enabled, screen, fee_session_dir,
                   payment_summary_mode, spelling>>

write_metadata(dsk, d, md) ==
    IF d \in DOMAIN dsk THEN [dsk EXCEPT ![d].meta = md]
    ELSE Put(dsk, d, [csv |-> EmptyMap, meta |-> md])

\* a folder rename that leaves the tracked paths as they were
RerootKeepsOld(p, original_session, new_session_path) == p

\* p.replace(original_session, new_session_path), lines 1357-1362
Reroot(p, original_session, new_session_path) ==
    IF p.dir = original_session THEN MkPath(new_session_path, p.name) ELSE p

\* update_flag_state_for_file, lines 1345-1390: steps 4 and 5
rename_session_folder(io) ==
    /\ pc = "folder"
    /\ LET original_session == current_session
           session_path == pend.dir
           new_session_path == RemoveFlagTokens(original_session)
           Moved(p) == Reroot(p, original_session, new_session_path)
       IN IF HasFlagToken(original_session) /\ ~metadata.flagged
          THEN IF original_session \in DOMAIN disk /\ new_session_path \notin DOMAIN disk
               THEN IF ~io.access
                    THEN /\ FolderReturn(disk, "locked", {"Folder Locked"})
                         /\ UNCHANGED <<current_session, csv_paths, dataframes, scr_dataframes>>
                    ELSE IF io.renameOk
                    THEN /\ FolderReturn(
                               write_metadata(
                                   Put(Del(disk, original_session), new_session_path,
                                       disk[original_session]),
                                   new_session_path, metadata),
                               "renamed", {})
                         /\ current_session' = new_session_path
                         /\ csv_paths' = SeqMap(Moved, csv_paths)
                         \* the screen's list holds the same table objects as before
                         /\ scr_dataframes' = SeqMap(Moved, scr_dataframes)
                         /\ dataframes' = [q \in {Moved(p) : p \in DOMAIN dataframes} |->
                                LET p == CHOOSE o \in DOMAIN dataframes : Moved(o) = q
                                IN dataframes[p]]
                    ELSE /\ FolderReturn(write_metadata(disk, session_path, metadata),
                                         "raised", {})
                         /\ UNCHANGED <<current_session, csv_paths, dataframes, scr_dataframes>>
               ELSE /\ FolderReturn(write_metadata(disk, session_path, metadata),
                                    "skipped", {})
                    /\ UNCHANGED <<current_session, csv_paths, dataframes, scr_dataframes>>
          ELSE /\ FolderReturn(write_metadata(disk, session_path, metadata), "none", {})
               /\ UNCHANGED <<current_session, csv_paths, dataframes, scr_dataframes>>

\* ------------------------------------------------------------ fee entry
\* save_all_dataframes(), lines 1561-1572 (the session folder exists)
RECURSIVE save_all_dataframes(_, _)
save_all_dataframes(dsk, i) ==
    IF i > Len(csv_paths) THEN dsk
    ELSE LET path == csv_paths[i]
         IN save_all_dataframes(
                IF path \in DOMAIN dataframes /\ path.dir \in DOMAIN dsk
                THEN to_csv(dsk, path, dataframes[path]) ELSE dsk,
                i + 1)

\* go_to_fee_schedule(): the Next button of the assign screen
go_to_fee_schedule ==
    /\ pc = "idle"
    /\ screen = 2
    /\ next_enabled
    /\ current_session # NoSession
    /\ LET dsk == save_all_dataframes(disk, 1)
           fs == create_fee_schedule_screen(dsk, current_session, csv_paths)
       IN /\ disk' = dsk
          /\ fee_schedule' = fs.fee_schedule
          /\ fee_session_dir' = fs.fee_session_dir
    /\ screen' = 3
    /\ last' = Last("go_to_fee_schedule")
    /\ UNCHANGED <<current_session, csv_paths, dataframes, df_list, status_counts,
                   session_csvs, scr_dataframes, view, next_enabled, pc, pend, metadata,
                   payment_summary_mode, spelling>>

\* lines 1779-1797: the net of one file at the price typed for it
CountStatus(df, st) == Cardinality({i \in DOMAIN df : df[i].current_status = st})
net_of_file(df, price) ==
    LET regular == CountStatus(df, "regular")
        manual == CountStatus(df, "manual")
        gross == (regular + manual) * Cents(price)
        tih_cut == gross \div 10
        paypal == paypal_sum(price, regular)
    IN gross - tih_cut - paypal
\* lines 1775-1797: the loop over state["csv_paths"]
RECURSIVE total_net(_, _, _, _)
total_net(paths, dfs, prices, i) ==
    IF i > Len(paths) THEN 0
    ELSE (IF paths[i] \in DOMAIN dfs
          THEN net_of_file(dfs[paths[i]], Get(prices, basename(paths[i])))
          ELSE 0)
         + total_net(paths, dfs, prices, i + 1)
\* round(x, 2): the nearest whole number of cents, a tie going to the even one
Round2(a) ==
    LET q == a \div Cents(1)
        r == a % Cents(1)
    IN IF 2 * r > Cents(1) \/ (2 * r = Cents(1) /\ q % 2 = 1)
       THEN Cents(q + 1) ELSE Cents(q)

\* the text of a field that float() does not parse, such as an emptied field
\* (lines 1763-1765)
Blank == 0 - 1
\* lines 1761-1771: the position, in the order of the fields, of the first field
\* whose text is not a price, 0 when every field holds one
FirstInvalid(inputs) ==
    LET bad == {i \in DOMAIN csv_paths :
                    /\ basename(csv_paths[i]) \in DOMAIN inputs
                    /\ inputs[basename(csv_paths[i])] = Blank}
    IN IF bad = {} THEN 0 ELSE Min(bad)

\* save_fee_schedule() with the prices typed in `inputs`, lines 1742-1811; `pre`
\* is state["fee_schedule"] when it is called and `shown` the payment summary
\* the calling handler builds after it
save_fee_schedule(inputs, op, pre, shown) ==
    IF fee_session_dir = NoSession
    THEN /\ last' = [Last(op) EXCEPT !.dialogs = {"No Session"}, !.summary = shown]
         /\ fee_schedule' = pre
         /\ disk' = disk
    ELSE IF fee_session_dir \notin DOMAIN disk
    THEN /\ last' = [Last(op) EXCEPT !.dialogs = {"Missing Metadata"}, !.summary = shown]
         /\ fee_schedule' = pre
         /\ disk' = disk
    ELSE IF FirstInvalid(inputs) # 0
    THEN LET ok == {basename(csv_paths[i]) : i \in 1..(FirstInvalid(inputs) - 1)}
                       \cap DOMAIN inputs
         IN /\ last' = [Last(op) EXCEPT !.dialogs = {"Invalid Fee"}, !.summary = shown]
            /\ fee_schedule' = [n \in DOMAIN pre \cup ok |->
                                    IF n \in ok THEN inputs[n] ELSE pre[n]]
            /\ disk' = disk
    ELSE LET net == total_net(csv_paths, dataframes, inputs, 1)
         IN /\ fee_schedule' = [n \in DOMAIN pre \cup DOMAIN inputs |->
                                    IF n \in DOMAIN inputs THEN inputs[n] ELSE pre[n]]
            /\ disk' = [disk EXCEPT ![fee_session_dir].meta.fees = inputs]
            /\ last' = [Last(op) EXCEPT !.dialogs = {"Saved"}, !.dataChanged = TRUE,
                                        !.sessionsChanged = TRUE, !.summary = shown,
                                        !.total_net = net, !.net_to_club = Round2(net)]

\* the texts the fields of the fee screen can hold when it is saved: the text
\* the screen was built with, or a price the operator typed
FeeInputs ==
    LET shown == create_fee_schedule_screen(disk, fee_session_dir, csv_paths).fee_inputs
    IN {f \in [DOMAIN shown -> Prices \cup Range(shown)] :
            \A n \in DOMAIN shown : f[n] \in Prices \cup {shown[n]}}

\* save_and_go_back(): the Back button of the fee screen
save_and_go_back(inputs) ==
    /\ pc = "idle"
    /\ screen = 3
    /\ save_fee_schedule(inputs, "save_and_go_back", fee_schedule, NoSummary)
    /\ screen' = 2
    /\ UNCHANGED <<current_session, csv_paths, dataframes, df_list, status_counts,
                   session_csvs, scr_dataframes, view, next_enabled, fee_session_dir, pc, pend, metadata,
                   payment_summary_mode, spelling>>

\* save_and_continue(): the Next button of the fee screen, enabled when every
\* field holds a price (lines 1667-1685)
save_and_continue(inputs) ==
    /\ pc = "idle"
    /\ screen = 3
    /\ FirstInvalid(inputs) = 0
    /\ LET typed == [n \in DOMAIN fee_schedule \cup DOMAIN inputs |->
                        IF n \in DOMAIN inputs THEN inputs[n] ELSE fee_schedule[n]]
       IN save_fee_schedule(inputs, "save_and_continue", typed,
                            build_payment_summary(payment_summary_mode, status_counts, typed))
    /\ screen' = 4
    /\ UNCHANGED <<current_session, csv_paths, dataframes, df_list, status_counts,
                   session_csvs, scr_dataframes, view, next_enabled, fee_session_dir, pc,
                   pend, metadata, payment_summary_mode, spelling>>

\* on_mode_changed(): the Sorted / Unsorted buttons of the summary (lines 1920-1923)
on_mode_changed(mode) ==
    /\ pc = "idle"
    /\ screen = 4
    /\ payment_summary_mode' = mode
    /\ last' = [Last("on_mode_changed") EXCEPT
                    !.summary = build_payment_summary(mode, status_counts, fee_schedule)]
    /\ UNCHANGED <<disk, current_session, csv_paths, dataframes, df_list, status_counts,
                   fee_schedule, session_csvs, scr_dataframes, view, next_enabled, screen,
                   fee_session_dir, pc, pend, metadata, spelling>>

\* the Back button of the summary (line 2155)
summary_back ==
    /\ pc = "idle"
    /\ screen = 4
    /\ screen' = 3
    /\ last' = Last("summary_back")
    /\ UNCHANGED <<disk, current_session, csv_paths, dataframes, df_list, status_counts,
                   fee_schedule, session_csvs, scr_dataframes, view, next_enabled,
                   fee_session_dir, pc, pend, metadata, payment_summary_mode, spelling>>

\* ------------------------------------------------------ load and reset
\* lines 2882-2903: the tables read from the csv directory of the session
LoadRowRederive(r) ==
    [r EXCEPT !.default_status = determine_default_status(r.Notes, r.Name),
              !.current_status = determine_default_status(r.Notes, r.Name),
              !.AnkleBreaker_notes = ""]
\* default_status is computed again (line 2893) and the reviewer note is set to
\* the empty text (line 2897)
LoadRow(r) ==
    [r EXCEPT !.default_status = determine_default_status(r.Notes, r.Name),
              !.AnkleBreaker_notes = ""]

\* The sessions folder holds, besides the sessions of `disk`, directories that
\* are not sessions: one without metadata/metadata.json, one without the csv
\* directory, one with neither.
StrayDirs ==
    {[name |-> <<"stray", "csv">>, metadata |-> FALSE, csv |-> TRUE],
     [name |-> <<"stray", "metadata">>, metadata |-> TRUE, csv |-> FALSE],
     [name |-> <<"stray">>, metadata |-> FALSE, csv |-> FALSE]}
\* os.listdir(SESSIONS_DIR)
Listing(dsk) == DOMAIN dsk \cup {s.name : s \in StrayDirs}
\* os.path.exists(metadata_path)
metadata_exists(dsk, d) ==
    d \in DOMAIN dsk \/ \E s \in StrayDirs : s.name = d /\ s.metadata
\* os.path.isdir(csv_dir)
csv_isdir(dsk, d) ==
    d \in DOMAIN dsk \/ \E s \in StrayDirs : s.name = d /\ s.csv
\* a test that looks for the metadata file only
is_valid_session_metadata_only(dsk, d) == metadata_exists(dsk, d)
\* the test of line 2858
is_valid_session(dsk, d) == metadata_exists(dsk, d) /\ csv_isdir(dsk, d)

\* load_session_from_folder(folder_path, ...) for a folder_path spelled sp
LoadFolder(session_dir, failed, sp) ==
    /\ pc = "idle"
    /\ session_dir \in Listing(disk)
    /\ IF ~is_valid_session(disk, session_dir)
       THEN \* lines 2858-2860
            /\ last' = [Last("load_session") EXCEPT
                            !.dialogs = {"Invalid Session"},
                            !.target = [path |-> MkPath(session_dir, <<>>), row |-> 0]]
            /\ UNCHANGED <<current_session, fee_schedule, csv_paths, dataframes,
                           status_counts, session_csvs, scr_dataframes, next_enabled,
                           df_list, view, screen, spelling>>
       ELSE IF ~metadata_exists(disk, session_dir)
       THEN \* open(metadata_path) raises (line 2863), caught at line 2914
            /\ last' = [Last("load_session") EXCEPT
                            !.dialogs = {"Load Failed"},
                            !.target = [path |-> MkPath(session_dir, <<>>), row |-> 0]]
            /\ UNCHANGED <<current_session, fee_schedule, csv_paths, dataframes,
                           status_counts, session_csvs, scr_dataframes, next_enabled,
                           df_list, view, screen, spelling>>
       ELSE IF ~csv_isdir(disk, session_dir)
       THEN \* lines 2869-2880: the listing of the csv directory raises after the
            \* state was reset, caught at line 2914
            /\ current_session' = session_dir
            /\ spelling' = sp
            /\ csv_paths' = <<>>
            /\ dataframes' = EmptyMap
            /\ status_counts' = EmptyMap
            /\ fee_schedule' = EmptyMap
            /\ last' = [Last("load_session") EXCEPT
                            !.dialogs = {"Load Failed"},
                            !.target = [path |-> MkPath(session_dir, <<>>), row |-> 0]]
            /\ UNCHANGED <<session_csvs, scr_dataframes, next_enabled, df_list, view,
                           screen>>
       ELSE \* lines 2882-2906: a file whose processing raises is left out
            LET paths == get_csv_paths_from_dir(disk, session_dir)
                dfs == [p \in {q \in Range(paths) : q.name \notin failed} |->
                           SeqMap(LoadRow, disk[session_dir].csv[p.name])]
                a == create_assign_status_screen(disk, session_dir, dfs)
            IN /\ current_session' = session_dir
               /\ spelling' = sp
               /\ fee_schedule' = disk[session_dir].meta.fees
               /\ csv_paths' = a.csv_paths
               /\ dataframes' = a.dataframes
               /\ status_counts' = a.status_counts
               /\ session_csvs' = a.session_csvs
               /\ scr_dataframes' = a.scr_dataframes
               /\ next_enabled' = a.next_enabled
               /\ df_list' = <<>>
               /\ view' = 0
               /\ screen' = 2
               /\ last' = [Last("load_session") EXCEPT
                               !.target = [path |-> MkPath(session_dir, <<>>), row |-> 0]]
    /\ UNCHANGED <<disk, fee_session_dir, pc, pend, metadata,
                   payment_summary_mode>>

\* load_session_from_folder called by confirm_and_load_session of the session
\* trees (lines 354 and 735): the path is os.path.join(SESSIONS_DIR, name)
load_session_from_folder(session_dir, failed) == LoadFolder(session_dir, failed, "os")

\* open_folder_dialog() of the menu (lines 3054-3066): the path is the text
\* QFileDialog.getExistingDirectory returns
open_folder_dialog(folder) == LoadFolder(folder, {}, "qt")

\* the directories the tree of the welcome screen lists (lines 675-724)
refresh_session_tree ==
    /\ pc = "idle"
    /\ LET sessions_with_time == {d \in Listing(disk) : metadata_exists(disk, d)}
       IN last' = [Last("refresh_session_tree") EXCEPT
                      !.listed = {d \in sessions_with_time : csv_isdir(disk, d)}]
    /\ UNCHANGED <<disk, current_session, csv_paths, dataframes, df_list, status_counts,
                   fee_schedule, session_csvs, scr_dataframes, view, next_enabled, screen,
                   fee_session_dir, pc, pend, metadata, payment_summary_mode, spelling>>

\* the directories the All Sessions tab lists when no filter is set (lines 2304-2360)
refresh_all_sessions ==
    /\ pc = "idle"
    /\ LET sessions == {d \in Listing(disk) : metadata_exists(disk, d)}
       IN last' = [Last("refresh_all_sessions") EXCEPT
                      !.listed = {d \in sessions : csv_isdir(disk, d)}]
    /\ UNCHANGED <<disk, current_session, csv_paths, dataframes, df_list, status_counts,
                   fee_schedule, session_csvs, scr_dataframes, view, next_enabled, screen,
                   fee_session_dir, pc, pend, metadata, payment_summary_mode, spelling>>

\* reset_session(stack, state, parent), lines 2917-2988
reset_session ==
    /\ pc = "idle"
    /\ disk' = save_all_dataframes(disk, 1)
    /\ current_session' = NoSession
    /\ csv_paths' = <<>>
    /\ dataframes' = EmptyMap
    /\ df_list' = <<>>
    /\ status_counts' = EmptyMap
    /\ fee_schedule' = EmptyMap
    /\ session_csvs' = <<>>
    /\ scr_dataframes' = <<>>
    /\ view' = 0
    /\ next_enabled' = TRUE
    /\ screen' = 0
    /\ last' = [Last("reset_session") EXCEPT !.sessionsChanged = TRUE]
    /\ spelling' = "os"
    /\ UNCHANGED <<fee_session_dir, pc, pend, metadata,
                   payment_summary_mode>>

\* the operations on the session that is open
Engine ==
    \/ \E i \in 0..MaxFiles : select_view(i)
    \/ \E r \in 1..MaxRows, st \in EditStatuses : set_status_single(r, st)
    \/ \E o \in 1..MaxFiles, r \in 1..MaxRows, st \in EditStatuses : set_status_all(o, r, st)
    \/ \E io \in FileIO : update_flag_state_for_file(io)
    \/ \E io \in FolderIO : rename_session_folder(io)
    \/ go_to_fee_schedule
    \/ \E inputs \in FeeInputs : save_and_go_back(inputs)
    \/ \E d \in DOMAIN disk : load_session_from_folder(d, {})
    \/ reset_session

\* one session, made of any selection of the export folder
Next ==
    \/ \E sel \in Selections : load_paths(sel, 1, {})
    \/ create_session(1)
    \/ Engine

Spec == Init /\ [][Next]_vars

\* up to MaxSessions sessions of the same club and date, each made of one file
\* and edited from the View All view
NextMulti ==
    \/ \E sel \in SingleSelections : load_paths(sel, MaxSessions, {})
    \/ create_session(MaxSessions)
    \/ \E o \in 1..MaxFiles, r \in 1..MaxRows, st \in EditStatuses : set_status_all(o, r, st)
    \/ \E io \in FileIO : update_flag_state_for_file(io)
    \/ \E io \in FolderIO : rename_session_folder(io)
    \/ \E d \in DOMAIN disk : load_session_from_folder(d, {})
    \/ reset_session

SpecMulti == Init /\ [][NextMulti]_vars

\* ------------------------------------------------------- reviewer notes
\* the texts typed in the note field of the All Sessions tab
NoteTexts == {"paid cash"}
\* lines 2420-2424: the table of the selected file after the note is set
SaveNote(df, name, text) ==
    [i \in DOMAIN df |->
        [df[i] EXCEPT !.AnkleBreaker_notes = IF df[i].Name = name THEN text ELSE @,
                      !.default_status = determine_default_status(df[i].Notes, df[i].Name)]]

\* on_save_note() for the file and the name selected in the All Sessions tab
\* (lines 2413-2432); the table is the one read when the file was selected
on_save_note(selected_session, selected_file, name, text) ==
    /\ pc = "idle"
    /\ selected_session \in DOMAIN disk
    /\ selected_file \in DOMAIN disk[selected_session].csv
    /\ LET df == disk[selected_session].csv[selected_file]
       IN /\ \E i \in DOMAIN df : df[i].Name = name
          /\ disk' = [disk EXCEPT ![selected_session].csv[selected_file] =
                                      SaveNote(df, name, text)]
    /\ last' = [Last("on_save_note") EXCEPT !.dataChanged = TRUE,
                                            !.sessionsChanged = TRUE]
    /\ UNCHANGED <<current_session, csv_paths, dataframes, df_list, status_counts,
                   fee_schedule, session_csvs, scr_dataframes, view, next_enabled, screen,
                   fee_session_dir, pc, pend, metadata, payment_summary_mode, spelling>>

\* one session whose records get reviewer notes between loads and saves
NextNotes ==
    \/ \E sel \in Selections : load_paths(sel, 1, {})
    \/ create_session(1)
    \/ \E d \in DOMAIN disk, n \in SourceNames \cup {m \o <<"flag">> : m \in SourceNames},
          text \in NoteTexts :
           on_save_note(d, n, "ann", text)
    \/ \E d \in DOMAIN disk : load_session_from_folder(d, {})
    \/ go_to_fee_schedule
    \/ reset_session

SpecNotes == Init /\ [][NextNotes]_vars

\* ------------------------------------------------------ session deletion
\* state.get("current_session") and os.path.abspath(state["current_session"]) ==
\* os.path.abspath(folder) (line 3129): abspath brings both texts to the
\* platform's spelling
SamePath(path, cur) == cur # NoSession /\ path = cur

\* the values str(path) == str(state.get("current_session")) (line 395) can take,
\* path being os.path.join(SESSIONS_DIR, name) (lines 307 and 367). A text that
\* QFileDialog returned separates the components with '/', os.path.join with the
\* platform's separator: the two texts of one folder are equal where that
\* separator is '/' and differ where it is '\'
StrEqual(path, cur, sp) ==
    IF ~SamePath(path, cur) THEN {FALSE}
    ELSE IF sp = "os" THEN {TRUE}
    ELSE BOOLEAN

\* shutil.rmtree(path) and the cleanup that follows it, common to lines 393-407
\* and 3127-3134; rmtreeOk = FALSE is the call raising with the tree in place
Deleted(op, path, same, rmtreeOk, dataChanged) ==
    /\ pc = "idle"
    /\ path \in DOMAIN disk
    /\ IF rmtreeOk
       THEN /\ disk' = Del(disk, path)
            /\ IF same
               THEN /\ current_session' = NoSession
                    /\ spelling' = "os"
                    /\ csv_paths' = <<>>
                    /\ dataframes' = EmptyMap
                    /\ status_counts' = EmptyMap
                    /\ fee_schedule' = EmptyMap
               ELSE UNCHANGED <<current_session, csv_paths, dataframes, status_counts,
                               fee_schedule, spelling>>
            /\ last' = [Last(op) EXCEPT
                           !.prop = "deleted",
                           !.target = [path |-> MkPath(path, <<>>), row |-> 0],
                           !.before = IF same THEN "current" ELSE "other",
                           !.dialogs = {"Deleted"},
                           !.sessionsChanged = TRUE,
                           !.dataChanged = dataChanged]
       ELSE /\ UNCHANGED <<disk, current_session, csv_paths, dataframes, status_counts,
                           fee_schedule, spelling>>
            /\ last' = [Last(op) EXCEPT
                           !.prop = "delete_failed",
                           !.target = [path |-> MkPath(path, <<>>), row |-> 0],
                           !.dialogs = {"Error"}]
    /\ UNCHANGED <<df_list, session_csvs, scr_dataframes, view, next_enabled, screen,
                   fee_session_dir, pc, pend, metadata, payment_summary_mode>>

\* delete_session(path) of the past-sessions screen, confirmed (lines 385-459)
delete_session(path, rmtreeOk) ==
    \E same \in StrEqual(path, current_session, spelling) :
        Deleted("delete_session", path, same, rmtreeOk, FALSE)

\* delete_session_dialog() of the menu, confirmed (lines 3116-3146)
delete_session_dialog(folder, rmtreeOk) ==
    Deleted("delete_session_dialog", folder, SamePath(folder, current_session), rmtreeOk,
            TRUE)

\* several sessions, created, loaded and deleted
NextDelete ==
    \/ \E sel \in SingleSelections : load_paths(sel, MaxSessions, {})
    \/ create_session(MaxSessions)
    \/ \E d \in DOMAIN disk : load_session_from_folder(d, {})
    \/ \E d \in DOMAIN disk : open_folder_dialog(d)
    \/ reset_session
    \/ \E d \in DOMAIN disk, ok \in BOOLEAN : delete_session(d, ok)
    \/ \E d \in DOMAIN disk, ok \in BOOLEAN : delete_session_dialog(d, ok)

SpecDelete == Init /\ [][NextDelete]_vars

\* several sessions next to directories that are not sessions
NextInvalid ==
    \/ \E sel \in SingleSelections : load_paths(sel, MaxSessions, {})
    \/ create_session(MaxSessions)
    \/ \E d \in Listing(disk) : open_folder_dialog(d)
    \/ reset_session
    \/ refresh_session_tree
    \/ refresh_all_sessions

SpecInvalid == Init /\ [][NextInvalid]_vars

\* one session whose files may fail to load: a file of the csv directory whose
\* first six headers are not the expected ones and that has more than six
\* columns makes the assignment of line 2891 raise
NextPartial ==
    \/ \E sel \in Selections : load_paths(sel, 1, {})
    \/ create_session(1)
    \/ \E d \in DOMAIN disk, failed \in SUBSET UNION {DOMAIN disk[e].csv : e \in DOMAIN disk} :
           failed \subseteq DOMAIN disk[d].csv /\ load_session_from_folder(d, failed)
    \/ \E o \in 1..MaxFiles, r \in 1..MaxRows, st \in EditStatuses : set_status_all(o, r, st)
    \/ \E io \in FileIO : update_flag_state_for_file(io)
    \/ \E io \in FolderIO : rename_session_folder(io)
    \/ go_to_fee_schedule

SpecPartial == Init /\ [][NextPartial]_vars

\* imports in which some of the selected files cannot be parsed
NextImport ==
    \/ \E sel \in Selections, failed \in SUBSET SourceNames : load_paths(sel, 1, failed)
    \/ create_session(1)
    \/ \E o \in 1..MaxFiles, r \in 1..MaxRows, st \in EditStatuses : set_status_all(o, r, st)
    \/ \E io \in FileIO : update_flag_state_for_file(io)
    \/ \E io \in FolderIO : rename_session_folder(io)
    \/ \E d \in DOMAIN disk : load_session_from_folder(d, {})
    \/ reset_session

SpecImport == Init /\ [][NextImport]_vars

\* the classifier on its own: raw exports of one record, whose name and notes
\* are drawn from the texts below, are imported on the welcome screen
ClassifyNames == {"ann", "Jane Doe", "ryan marvin", " Ryan Marvin ", "RYAN MARVIN"}
NoteFragments == {"Comped", WAITLIST_PHRASE, "refund", "Refund", "Manually confirmed by",
                  REGULAR_PHRASE, "Not over capacity: Register"}
ClassifyFile(name, notes) ==
    [name |-> <<"y">>, headers |-> "raw_layout", rows |-> <<Row(name, "a1", notes)>>]
NextClassify ==
    \E name \in ClassifyNames, notes \in SUBSET NoteFragments :
        load_paths(<<ClassifyFile(name, notes)>>, 1, {})

SpecClassify == Init /\ [][NextClassify]_vars

\* the fee screen and the payment summary on their own: a session of two files
\* whose records have statuses drawn from the sets below is open on the fee
\* screen, and prices on both sides of the tier limit are typed
MaxFinRows == 2
FinPrices == {0, TierLimit, TierLimit + 1}
FinFrames(sts) ==
    UNION {{[i \in 1..n |-> Processed("ann", "a1", {REGULAR_PHRASE}, "regular", ss[i])] :
                ss \in [1..n -> sts]} : n \in 1..MaxFinRows}
FinInputs == [{basename(csv_paths[i]) : i \in DOMAIN csv_paths} -> FinPrices]
\* the fields when one of them at least has been emptied
FinBlankInputs ==
    {f \in [{basename(csv_paths[i]) : i \in DOMAIN csv_paths} -> FinPrices \cup {Blank}] :
         \E n \in DOMAIN f : f[n] = Blank}
InitFinance ==
    \E fx \in FinFrames({"regular", "manual"}), fy \in FinFrames({"regular", "comped"}) :
        LET dsk == Put(EmptyMap, BaseName,
                       [csv |-> Put(Put(EmptyMap, <<"x">>, fx), <<"y">>, fy),
                        meta |-> NoMeta])
            paths == get_csv_paths_from_dir(dsk, BaseName)
            dfs == [q \in Range(paths) |-> SeqMap(LoadRow, dsk[BaseName].csv[q.name])]
            a == create_assign_status_screen(dsk, BaseName, dfs)
            fs == create_fee_schedule_screen(dsk, BaseName, a.csv_paths)
        IN /\ disk = dsk
           /\ current_session = BaseName
           /\ csv_paths = a.csv_paths
           /\ dataframes = a.dataframes
           /\ df_list = <<>>
           /\ status_counts = a.status_counts
           /\ fee_schedule = fs.fee_schedule
           /\ session_csvs = a.session_csvs
           /\ scr_dataframes = a.scr_dataframes
           /\ view = 0
           /\ next_enabled = a.next_enabled
           /\ screen = 3
           /\ fee_session_dir = fs.fee_session_dir
           /\ pc = "idle"
           /\ pend = NoPath
           /\ last = Last("go_to_fee_schedule")
           /\ metadata = NoMeta
           /\ payment_summary_mode = "sorted"
           /\ spelling = "os"
NextFinance ==
    \/ \E inputs \in FinInputs : save_and_continue(inputs)
    \/ \E mode \in {"sorted", "unsorted"} : on_mode_changed(mode)
    \/ summary_back
    \/ \E inputs \in FeeInputs : save_and_go_back(inputs)
    \/ \E inputs \in FinBlankInputs : save_and_go_back(inputs)
    \/ go_to_fee_schedule

SpecFinance == InitFinance /\ [][NextFinance]_vars

\* ================================================================== claims
HasOther == \E p \in DOMAIN dataframes : is_file_flagged(dataframes[p])
TrackedNames == {basename(csv_paths[i]) : i \in DOMAIN csv_paths}
VersionTokens == {VTok(k) : k \in 2..6}
HasVersionToken(n) == \E i \in DOMAIN n : n[i] \in VersionTokens

\* C1: after every completed engine operation (creation, setStatus with its
\* propagation) a file's name ends in the flag suffix iff the file has a record
\* with current_status 'other', and the folder name carries the flag token iff
\* some file of the session has such a record.
C1_FlagSuffixAgreesWithOther ==
    (/\ pc = "idle"
     /\ last.op \in {"create_session", "flagPass", "folderPass"}
     /\ current_session \in DOMAIN disk)
    => /\ \A p \in DOMAIN dataframes :
              EndsWithFlag(basename(p)) <=> is_file_flagged(dataframes[p])
       /\ HasFlagToken(current_session) <=> HasOther

\* C2: after every setStatus and its propagation, metadata 'flagged' is true iff
\* some file of the session has a record with current_status 'other'.
C2_MetadataFlaggedIffOther ==
    (/\ pc = "idle"
     /\ last.op \in {"flagPass", "folderPass"}
     /\ current_session \in DOMAIN disk)
    => (disk[current_session].meta.flagged <=> HasOther)

\* C3: when a setStatus removes the last 'other' of a flag-suffixed file and no
\* I/O call fails, the file is on disk only under the unsuffixed name and is
\* tracked under it; and if no file of the session has an 'other' left, the
\* folder has lost the flag token and current_session names that folder.
C3_LastOtherRemovedUnflags ==
    (/\ pc = "idle"
     /\ last.op = "folderPass"
     /\ last.before = "other"
     /\ last.prop = "renamed" /\ last.attempts = 1
     /\ last.folder \notin {"locked", "raised"})
    => LET old_name == basename(last.target.path)
           new_name == StripFlagSuffix(old_name)
       IN /\ current_session \in DOMAIN disk
          /\ new_name \in DOMAIN disk[current_session].csv
          /\ old_name \notin DOMAIN disk[current_session].csv
          /\ new_name \in TrackedNames /\ old_name \notin TrackedNames
          /\ MkPath(current_session, new_name) \in DOMAIN dataframes
          /\ \A p \in DOMAIN dataframes : basename(p) # old_name
          /\ ~HasOther => ~HasFlagToken(current_session)

\* C4: a propagated Flagged->Unflagged file rename leaves, in the record-set map,
\* the fee schedule and the status-count cache, the old name's value under the
\* new name and no entry under the old name.
C4_RenameMovesIndexValues ==
    [][(pc = "flag" /\ last'.prop = "renamed")
       => LET old == pend
              new == pend'
          IN /\ new \in DOMAIN dataframes' /\ old \notin DOMAIN dataframes'
             /\ dataframes'[new] = dataframes[old]
             /\ basename(old) \notin DOMAIN fee_schedule'
             /\ basename(old) \in DOMAIN fee_schedule
                    => /\ basename(new) \in DOMAIN fee_schedule'
                       /\ fee_schedule'[basename(new)] = fee_schedule[basename(old)]
             /\ basename(old) \notin DOMAIN status_counts'
             /\ basename(old) \in DOMAIN status_counts
                    => /\ basename(new) \in DOMAIN status_counts'
                       /\ status_counts'[basename(new)] = status_counts[basename(old)]
      ]_vars

\* C5: when the file rename fails (the file is not accessible, or every attempt
\* fails) the indexes, the metadata and the set of files on disk are what they
\* were before the propagation, and an error dialog is shown.
C5_FailedRenameLeavesState ==
    [][(pc = "flag" /\ last'.prop \in {"inaccessible", "rename_failed"})
       => /\ csv_paths' = csv_paths
          /\ dataframes' = dataframes
          /\ fee_schedule' = fee_schedule
          /\ status_counts' = status_counts
          /\ DOMAIN disk' = DOMAIN disk
          /\ \A d \in DOMAIN disk :
                 /\ disk'[d].meta = disk[d].meta
                 /\ DOMAIN disk'[d].csv = DOMAIN disk[d].csv
          /\ last'.dialogs # {}
      ]_vars

\* C6: the file rename is attempted at most three times, and whenever the
\* rename a propagation needed was not performed a 'File Locked' dialog was shown.
C6_RenameBoundedAndSurfaced ==
    (pc = "idle" /\ last.op = "flagPass")
    => /\ last.attempts <= RenameAttempts
       /\ last.prop \in {"inaccessible", "remove_failed", "rename_failed"}
              => "File Locked" \in last.dialogs

\* C7: the step that renames the session folder sets current_session to the new
\* folder, roots every entry of csv_paths and every key of the record-set map at
\* it, and keeps the record sets, the fee prices and the status counts.
C7_FolderRenameRerootsPaths ==
    [][(pc = "folder" /\ last'.folder = "renamed")
       => LET old == current_session
              new == current_session'
          IN /\ new = RemoveFlagTokens(old) /\ new # old
             /\ new \in DOMAIN disk' /\ old \notin DOMAIN disk'
             /\ Len(csv_paths') = Len(csv_paths)
             /\ \A i \in DOMAIN csv_paths :
                    csv_paths'[i] = MkPath(new, basename(csv_paths[i]))
             /\ DOMAIN dataframes' = {MkPath(new, basename(p)) : p \in DOMAIN dataframes}
             /\ \A p \in DOMAIN dataframes :
                    dataframes'[MkPath(new, basename(p))] = dataframes[p]
             /\ fee_schedule' = fee_schedule
             /\ status_counts' = status_counts
      ]_vars

C7_Witness ==
    /\ pc = "idle" /\ last.op = "folderPass" /\ last.folder = "renamed"
    /\ ~HasFlagToken(current_session)
    /\ Len(csv_paths) = 2
    /\ \A i \in DOMAIN csv_paths : csv_paths[i].dir = current_session
    /\ DOMAIN dataframes = Range(csv_paths)

\* C8: a creation and a folder rename produce a folder name no session uses and
\* leave every other session folder as it was; a creation whose name is taken
\* gets a version token; a rename onto a taken name is not performed.
C8_FolderNamesNeverCollide ==
    [][/\ (screen = 0 /\ last'.op = "create_session")
          => /\ current_session' \notin DOMAIN disk
             /\ DOMAIN disk' = DOMAIN disk \cup {current_session'}
             /\ \A d \in DOMAIN disk : disk'[d] = disk[d]
             /\ (\/ BaseName \in DOMAIN disk
                 \/ /\ HasFlagToken(current_session')
                    /\ (BaseName \o <<"flag">>) \in DOMAIN disk)
                    => HasVersionToken(current_session')
       /\ (pc = "folder" /\ last'.folder = "renamed")
          => /\ current_session' \notin DOMAIN disk
             /\ DOMAIN disk' = (DOMAIN disk \ {current_session}) \cup {current_session'}
             /\ \A d \in DOMAIN disk \ {current_session} : disk'[d] = disk[d]
       /\ (pc = "folder" /\ last'.folder # "renamed")
          => /\ DOMAIN disk' = DOMAIN disk
             /\ \A d \in DOMAIN disk \ {current_session} : disk'[d] = disk[d]
      ]_vars

C8_Witness ==
    /\ pc = "idle" /\ last.op = "create_session"
    /\ BaseName \in DOMAIN disk
    /\ HasVersionToken(current_session)
    /\ Cardinality(DOMAIN disk) = 2

\* C9: after every engine operation every key of the fee schedule, in memory and
\* in the metadata 'fees' map, is the name of a file of the session.
C9_FeeKeysNamePresentFiles ==
    (pc = "idle" /\ current_session \in DOMAIN disk)
    => LET present == TrackedNames \cup DOMAIN disk[current_session].csv
       IN /\ DOMAIN fee_schedule \subseteq present
          /\ DOMAIN disk[current_session].meta.fees \subseteq present

\* C10: an edit issued from a row of the View All view changes the record of
\* the file under which the row is shown.
C10_ViewAllEditsOwningFile ==
    (pc = "flag" /\ last.op = "setStatus") => last.target = last.owner

C12_DefaultStatusKeptSinceIngestion ==
    [][/\ (pc = "idle" /\ pc' = "flag") =>
            \A p \in DOMAIN dataframes : \A i \in DOMAIN dataframes[p] :
                dataframes'[p][i].default_status = dataframes[p][i].default_status
       /\ last'.op \in {"go_to_fee_schedule", "reset_session"} =>
            \A p \in DOMAIN dataframes :
                (p.dir \in DOMAIN disk' /\ p.name \in DOMAIN disk'[p.dir].csv) =>
                    \A i \in DOMAIN dataframes[p] :
                        disk'[p.dir].csv[p.name][i].default_status =
                            dataframes[p][i].default_status
       /\ last'.op = "load_session" =>
            \A p \in DOMAIN dataframes' : \A i \in DOMAIN dataframes'[p] :
                dataframes'[p][i].default_status =
                    disk[p.dir].csv[p.name][i].default_status]_vars

RuleStatus == <<"comped", "comped", "waitlist", "refund", "manual", "regular", "other">>
RuleMatches(k, notes, name) ==
    LET has(t) == \E f \in notes : StrLower(f) = t
    IN CASE k = 1 -> StrLower(StrStrip(name)) \in COMPED_NAMES
         [] k = 2 -> has("comped")
         [] k = 3 -> has(WAITLIST_PHRASE)
         [] k = 4 -> has("refund")
         [] k = 5 -> has("manually confirmed by")
         [] k = 6 -> has(REGULAR_PHRASE)
         [] OTHER -> TRUE
FirstRule(notes, name) == Min({k \in DOMAIN RuleStatus : RuleMatches(k, notes, name)})
C14_ClassifierFirstMatch ==
    \A f \in DOMAIN df_list : \A i \in DOMAIN df_list[f] :
        LET r == df_list[f][i]
        IN /\ r.default_status \in Statuses
           /\ r.default_status = RuleStatus[FirstRule(r.Notes, r.Name)]
           /\ (r.Name = "Jane Doe" /\ r.Notes = {"Manually confirmed by"}) =>
                  r.default_status = "manual"

\* a record whose notes match several rules, the earliest only through
\* lower-casing, was classified by that rule
C14_Witness ==
    /\ df_list # <<>>
    /\ df_list[1][1].Name = "Jane Doe"
    /\ df_list[1][1].Notes = {"Refund", "Manually confirmed by", REGULAR_PHRASE}
    /\ df_list[1][1].default_status = "refund"

\* C15: for every price P >= 0 and all counts, the payment summary and the fee
\* save both compute gross = (regular + manual) * P, platform fee = gross * 0.10,
\* processor fee = regular * (P * 0.05 + 0.09) when P <= 10 and regular *
\* (P * 0.0349 + 0.49) when P > 10, and net = gross - platform fee - processor
\* fee, with nothing rounded before the result is presented: P = 10, regular = 2,
\* manual = 0 gives 20, 2.0, 1.18 and 16.82.  (What the fee save presents is the
\* total of the nets, rounded to the cent.)
SummaryRows == Flatten(last.summary.groups)
ExpectedGross(regular, manual, P) == (regular + manual) * P * 10000
ExpectedPlatformFee(regular, manual, P) == (regular + manual) * P * 1000
ExpectedProcessorFee(regular, P) ==
    IF P <= 1000 THEN regular * (P * 500 + 90000) ELSE regular * (P * 349 + 490000)
ExpectedNet(regular, manual, P) ==
    ExpectedGross(regular, manual, P) - ExpectedPlatformFee(regular, manual, P)
        - ExpectedProcessorFee(regular, P)
RecordsWith(fname, st) ==
    LET df == dataframes[MkPath(current_session, fname)]
    IN Cardinality({i \in DOMAIN df : df[i].current_status = st})
RECURSIVE ExpectedTotalNet(_, _)
ExpectedTotalNet(names, fees) ==
    IF names = {} THEN 0
    ELSE LET n == CHOOSE m \in names : TRUE
         IN ExpectedNet(RecordsWith(n, "regular"), RecordsWith(n, "manual"), fees[n])
            + ExpectedTotalNet(names \ {n}, fees)
C16_UnpricedFileContributesZero ==
    \A k \in DOMAIN SummaryRows :
        SummaryRows[k].fname \notin DOMAIN fee_schedule =>
            /\ SummaryRows[k].Gross = 0
            /\ SummaryRows[k].TrackitHub = 0
            /\ SummaryRows[k].PayPal = 0
            /\ SummaryRows[k].Club = 0

C18_SaveThenLoadKeepsCurrentStatus ==
    [][/\ last'.op \in {"go_to_fee_schedule", "reset_session"} =>
            \A i \in DOMAIN csv_paths :
                LET p == csv_paths[i]
                IN (p \in DOMAIN dataframes /\ p.dir \in DOMAIN disk) =>
                    /\ p.name \in DOMAIN disk'[p.dir].csv
                    /\ Len(disk'[p.dir].csv[p.name]) = Len(dataframes[p])
                    /\ \A r \in DOMAIN dataframes[p] :
                          disk'[p.dir].csv[p.name][r].current_status =
                              dataframes[p][r].current_status
       /\ last'.op = "load_session" =>
            \A p \in DOMAIN dataframes' :
                /\ Len(dataframes'[p]) = Len(disk[p.dir].csv[p.name])
                /\ \A r \in DOMAIN dataframes'[p] :
                      dataframes'[p][r].current_status =
                          disk[p.dir].csv[p.name][r].current_status]_vars

\* a session was loaded in which a record of a raw export has a status that a
\* click gave it, not the one the classifier gives for its notes
C18_Witness ==
    /\ last.op = "load_session"
    /\ \E p \in DOMAIN dataframes : \E r \in DOMAIN dataframes[p] :
          /\ p.name = <<"y">>
          /\ dataframes[p][r].current_status = "regular"
          /\ determine_default_status(dataframes[p][r].Notes, dataframes[p][r].Name) = "other"

\* C19: a file that already carries the default_status and current_status
\* columns keeps the current_status it stores for every record when it is
\* imported, when the session is created from it and when the session is
\* loaded; the classifier gives current_status only to a file without the
\* column.  (At creation the file is followed under the name it is written
\* to, when no other selected file is written to that name.)
WrittenName(i) ==
    LET orig == basename(csv_paths[i])
    IN IF (\E r \in DOMAIN df_list[i] : df_list[i][r].current_status = "other")
          /\ ~EndsWithFlag(orig)
       THEN orig \o <<"flag">> ELSE orig
C20_UnsuffixedFileIsNoOp ==
    [][(pc = "flag" /\ pend.name # <<>> /\ pend.name[Len(pend.name)] # "flag") =>
        /\ last'.prop = "noop"
        /\ last'.attempts = 0
        /\ last'.dialogs = {}
        /\ pc' = "idle"
        /\ UNCHANGED <<csv_paths, dataframes, fee_schedule, status_counts, disk,
                       current_session>>]_vars

\* the pass ran for a file of a session none of whose files has the suffix,
\* after a click that changed its record
C20_Witness ==
    /\ pc = "idle"
    /\ last.op = "flagPass"
    /\ last.prop = "noop"
    /\ csv_paths # <<>>
    /\ \A i \in DOMAIN csv_paths :
          /\ csv_paths[i].name[Len(csv_paths[i].name)] # "flag"
          /\ csv_paths[i] \in DOMAIN dataframes
    /\ \E i \in DOMAIN csv_paths : \E r \in DOMAIN dataframes[csv_paths[i]] :
          dataframes[csv_paths[i]][r].current_status # dataframes[csv_paths[i]][r].default_status

\* C21: every flag pass whose file rename succeeded returns with the metadata
\* file of the session's current folder holding a flagged-file list without the
\* renamed file's old name and a flag boolean equal to 'the list is non-empty',
\* also when the folder rename that follows is refused or fails.
C21_MetadataWrittenAfterFileRename ==
    (/\ pc = "idle"
     /\ last.op = "folderPass"
     /\ last.prop = "renamed")
    => /\ current_session \in DOMAIN disk
       /\ LET md == disk[current_session].meta
              old_basename == basename(last.target.path)
          IN /\ old_basename \notin Range(md.flagged_files)
             /\ md.flagged <=> (md.flagged_files # <<>>)

\* C22: a deletion, from the past-sessions screen or from the menu, that removed
\* the current session's folder leaves current_session empty and csv_paths, the
\* record-set map, the status-count cache and the fee schedule empty; one that
\* removed another session's folder leaves those five and the current session's
\* files as they were.
C22_DeleteClearsOnlyCurrentSession ==
    [][(last'.op \in {"delete_session", "delete_session_dialog"}
        /\ last'.prop = "deleted")
       => LET path == last'.target.path.dir
          IN /\ path \notin DOMAIN disk'
             /\ IF path = current_session
                THEN /\ current_session' = NoSession
                     /\ csv_paths' = <<>>
                     /\ dataframes' = EmptyMap
                     /\ status_counts' = EmptyMap
                     /\ fee_schedule' = EmptyMap
                ELSE /\ UNCHANGED <<current_session, csv_paths, dataframes,
                                    status_counts, fee_schedule>>
                     /\ current_session \in DOMAIN disk
                            => /\ current_session \in DOMAIN disk'
                               /\ disk'[current_session] = disk[current_session]
      ]_vars

\* C23: every status click has raised dataChanged when its handler returns,
\* every file or folder rename that succeeded is followed by sessionsChanged,
\* and every fee save that changes the in-memory fee schedule raises dataChanged.
C23_ChangesAreNotified ==
    [][/\ (pc' = "idle" /\ last'.op \in {"flagPass", "folderPass"})
              => last'.dataChanged
       /\ (last'.op \in {"flagPass", "folderPass"}
           /\ (last'.prop = "renamed" \/ last'.folder = "renamed"))
              => last'.sessionsChanged
       /\ (last'.op \in {"save_and_go_back", "save_and_continue"}
           /\ fee_schedule' # fee_schedule)
              => last'.dataChanged
      ]_vars

\* C24: loading a directory that lacks metadata/metadata.json or the csv
\* directory shows 'Invalid Session' and leaves current_session, csv_paths, the
\* record-set map, the status counts and the fee schedule as they were; the
\* session trees list every directory that has both and no other.
C24_InvalidSessionRejected ==
    [][/\ (last'.op = "load_session"
           /\ LET d == last'.target.path.dir
              IN \/ d \in {s.name : s \in StrayDirs}
                 \/ d \notin DOMAIN disk)
              => /\ last'.dialogs = {"Invalid Session"}
                 /\ UNCHANGED <<current_session, csv_paths, dataframes, status_counts,
                                fee_schedule>>
       /\ last'.op \in {"refresh_session_tree", "refresh_all_sessions"}
              => /\ last'.listed \cap {s.name : s \in StrayDirs} = {}
                 /\ DOMAIN disk \subseteq last'.listed
      ]_vars

\* a session is open, a directory that is not a session was refused, and a
\* session is on disk for the trees to list
C24_Witness ==
    /\ last.op = "load_session"
    /\ last.dialogs = {"Invalid Session"}
    /\ last.target.path.dir = <<"stray", "metadata">>
    /\ current_session # NoSession
    /\ dataframes # EmptyMap

\* C25: a status click that sets 'other' on a record of a file whose name has no
\* flag suffix changes that record's current_status, the status counts and the
\* list of 'other' registrants and nothing else: no file or folder on disk gets
\* another name, the tracked paths and the metadata stay as they were, and the
\* flag pass that follows does nothing.
C25_IntroducingOtherRenamesNothing ==
    [][/\ (/\ pc = "idle" /\ last'.op = "setStatus"
           /\ ~EndsWithFlag(basename(last'.target.path))
           /\ dataframes'[last'.target.path][last'.target.row].current_status = "other")
          => LET t == last'.target
             IN /\ dataframes' = [dataframes EXCEPT ![t.path][t.row].current_status = "other"]
                /\ UNCHANGED <<current_session, csv_paths, fee_schedule>>
                /\ DOMAIN disk' = DOMAIN disk
                /\ \A d \in DOMAIN disk :
                       /\ disk'[d].meta = disk[d].meta
                       /\ DOMAIN disk[d].csv \subseteq DOMAIN disk'[d].csv
                       /\ DOMAIN disk'[d].csv \subseteq DOMAIN disk[d].csv \cup {basename(t.path)}
                /\ status_counts' = update_status_counts(session_csvs, Frames(dataframes'))
                /\ next_enabled' = ~update_other_display(session_csvs, Frames(dataframes'))
       /\ (/\ pc = "flag"
           /\ pend \in DOMAIN dataframes
           /\ ~EndsWithFlag(basename(pend))
           /\ dataframes[last.target.path][last.target.row].current_status = "other")
          => /\ last'.prop = "noop" /\ pc' = "idle"
             /\ UNCHANGED <<disk, current_session, csv_paths, dataframes, status_counts,
                            fee_schedule, next_enabled>>
      ]_vars

\* a file without the suffix holds an 'other' in a session whose folder and
\* metadata are not flagged, and the flag pass of the click has returned
C25_Witness ==
    /\ pc = "idle"
    /\ last.op = "flagPass"
    /\ last.prop = "noop"
    /\ \E p \in DOMAIN dataframes :
           ~EndsWithFlag(basename(p)) /\ is_file_flagged(dataframes[p])
    /\ current_session \in DOMAIN disk
    /\ ~HasFlagToken(current_session)
    /\ ~disk[current_session].meta.flagged

\* C26: whenever the status assignment screen of a session is shown and no
\* handler is running, its Next control is enabled iff no record of any file of
\* the session has current_status 'other'.
C26_NextEnabledIffNoOther ==
    (/\ pc = "idle"
     /\ screen = 2
     /\ current_session # NoSession)
    => (next_enabled <=> ~HasOther)

\* C27: the session created from a selection holds, for every selected file
\* that was parsed, a table under that file's name (with the flag suffix when
\* the creation adds it) whose records are the ones parsed from that file.
C27_EachSourceGetsItsOwnTable ==
    [][(last.op = "load_paths" /\ last'.op = "create_session")
       => \A i \in DOMAIN csv_paths :
              LET n == basename(csv_paths[i])
                  written == disk'[current_session'].csv
              IN n \notin last.failed
                 => \E m \in {n, n \o <<"flag">>} :
                        /\ m \in DOMAIN written
                        /\ written[m] = ReadSource(SourceFile(n))
      ]_vars

\* C28: no step of a status click (the assignment, the flag pass with its file
\* rename, the folder rename) changes the number of record sets held in memory
\* or the number of tables the sessions on disk hold.
TablesOnDisk(dsk) == UNION {{<<d, n>> : n \in DOMAIN dsk[d].csv} : d \in DOMAIN dsk}
C28_RenameKeepsOtherFiles ==
    [][last'.op \in {"setStatus", "flagPass", "folderPass"}
       => /\ Cardinality(DOMAIN dataframes') = Cardinality(DOMAIN dataframes)
          /\ Cardinality(TablesOnDisk(disk')) = Cardinality(TablesOnDisk(disk))
      ]_vars

\* C29: when the handler of a status click has returned, every record set held
\* in memory has a table on disk under its path whose current_status values are
\* the ones held in memory.
C29_EditsAreOnDisk ==
    (/\ pc = "idle"
     /\ last.op \in {"flagPass", "folderPass"})
    => \A p \in DOMAIN dataframes :
           /\ Exists(disk, p)
           /\ Len(disk[p.dir].csv[p.name]) = Len(dataframes[p])
           /\ \A i \in DOMAIN dataframes[p] :
                  disk[p.dir].csv[p.name][i].current_status
                      = dataframes[p][i].current_status

\* C30: a save that follows the load of a session leaves, in every table of
\* the session on disk, the reviewer note of every record as it was before the
\* save, which is as the save-note operation wrote it.
C30_LoadThenSaveKeepsNotes ==
    [][(/\ last.op = "load_session" /\ last.dialogs = {}
        /\ last'.op \in {"go_to_fee_schedule", "reset_session"})
       => /\ current_session \in DOMAIN disk'
          /\ \A n \in DOMAIN disk[current_session].csv :
                 /\ n \in DOMAIN disk'[current_session].csv
                 /\ \A i \in DOMAIN disk[current_session].csv[n] :
                        disk'[current_session].csv[n][i].AnkleBreaker_notes
                            = disk[current_session].csv[n][i].AnkleBreaker_notes
      ]_vars
====
